---- MODULE Spec2Model ----
(***************************************************************************)
(* TranStructIVer: the tree model (Node), the identifier-rename rule, the   *)
(* structural isomorphism verifier (SIVerifier) and the harnesses that      *)
(* drive them.                                                              *)
(*                                                                          *)
(* Node objects live in a heap: a sequence of records indexed by object    *)
(* identity, so a clone is a set of fresh objects and a rule edits objects  *)
(* in place.  An optional text is <<>> (None) or <<s>> (the string s).      *)
(* A path "0.2.1" is the sequence <<0, 2, 1>> of its dot-separated indices. *)
(***************************************************************************)
EXTENDS Integers, Sequences, FiniteSets, TLC

VARIABLES
    heap,             \* the Node objects: heap[id] = [type, text, children, is_named]
    original_cst,     \* verify.py: the original tree (a node id)
    mutated_cst,      \* verify.py: the mutated tree (a node id), NoRef before it exists
    verifier,         \* the SIVerifier instance: errors, renamed_paths, ignored_paths, success_count
    snippet_manifest, \* the manifest handed to the latest verify call
    is_valid,         \* the value the latest verify call returned
    applied,          \* how many times the rename rule ran on mutated_cst
    leftover,         \* history: the verifier held errors and both path tables when the latest call began
    pc,               \* position of the harness: "ready" or "verified"
    fs,               \* the files: the dataset, manifest.json, summary_log.csv
    run               \* cli.run_pipeline: its arguments, its locals and its position

vars == <<heap, original_cst, mutated_cst, verifier, snippet_manifest, is_valid,
          applied, leftover, pc, fs, run>>

----------------------------------------------------------------------------
(* Bounds of the model *)

\* entries of a manifest: renamed_paths and ignored_paths together
MaxEntries == 2
\* applications of the rename rule to one tree
MaxApply == 1
\* rows of the dataset
MaxRows == 2
\* the longest rule list handed to a MutationEngine
MaxRules == 2
\* the most children of a Tree-sitter root handed to the quality filter
MaxChildren == 2
\* the most samples verified and logged on one SIVerifier
MaxSamples == 2

NoRef == 0
None == <<>>
Some(s) == <<s>>

\* the (type, text) pairs of the nodes of a constructor expression: a leaf may
\* carry a text, a node with children has none
LeafLabels == { <<"block", None>>, <<"identifier", None>>, <<"identifier", Some("a")>> }
InnerLabels == { <<"block", None>>, <<"identifier", None>> }

\* The shapes of the trees built by constructor expressions: a shape is the
\* sequence of the shapes of the children.
Leaf == <<>>
Shapes == { Leaf,
            <<Leaf>>,
            <<Leaf, Leaf>>,
            <<(<<Leaf>>)>>,
            <<(<<Leaf>>), Leaf>> }

\* every path of the trees above
PathUniverse == { <<0>>, <<0, 0>>, <<0, 1>>, <<0, 0, 0>> }

\* the expected texts a manifest may name
ExpectedTexts == { Some("a") }

\* the trees and the paths of the harness that reuses one verifier
ReuseShapes == { Leaf, <<Leaf>> }
ReusePaths == { <<0>>, <<0, 0>> }

----------------------------------------------------------------------------
(* Node *)

\* Node.__init__: children or [], text, is_named
NewNode(type, children, text, is_named) ==
    [type |-> type, children |-> children, text |-> text, is_named |-> is_named]

\* a constructor expression Node(type, [children...], text=...), as a value
RECURSIVE LitsOf(_)
LitsOf(shape) ==
    IF shape = <<>>
    THEN { [type |-> l[1], text |-> l[2], children |-> <<>>] : l \in LeafLabels }
    ELSE LET n == Len(shape)
             kids == { cs \in [1..n -> UNION { LitsOf(shape[i]) : i \in 1..n }] :
                          \A i \in 1..n : cs[i] \in LitsOf(shape[i]) }
         IN { [type |-> l[1], text |-> l[2], children |-> cs] :
                  l \in InnerLabels, cs \in kids }

TreeLits == UNION { LitsOf(s) : s \in Shapes }

\* Node(type, text=text) and Node(type, [children]) as constructor expressions
LeafLit(type, text) == [type |-> type, text |-> Some(text), children |-> <<>>]
InnerLit(type, children) == [type |-> type, text |-> None, children |-> children]

\* mock_cst.cst: add(a, b) { return a + b; }
MockCst ==
    InnerLit("function_definition", <<
        LeafLit("identifier", "add"),
        InnerLit("parameters", << LeafLit("identifier", "a"), LeafLit("identifier", "b") >>),
        InnerLit("body", <<
            InnerLit("return_statement", <<
                InnerLit("binary_expression", <<
                    LeafLit("identifier", "a"),
                    LeafLit("operator", "+"),
                    LeafLit("identifier", "b") >>) >>) >>) >>)

\* Evaluating a constructor expression: the children are built first, left to
\* right, then the parent.  Returns <<heap', id of the new node>>.
RECURSIVE Build(_, _), BuildAll(_, _, _)
Build(h, lit) ==
    LET r == BuildAll(h, lit.children, <<>>)
        node == NewNode(lit.type, r[2], lit.text, FALSE)
    IN <<Append(r[1], node), Len(r[1]) + 1>>
BuildAll(h, lits, ids) ==
    IF lits = <<>> THEN <<h, ids>>
    ELSE LET r == Build(h, Head(lits))
         IN BuildAll(r[1], Tail(lits), Append(ids, r[2]))

\* Node.add_child
add_child(h, id, child) ==
    [h EXCEPT ![id].children = Append(@, child)]

\* Node.clone, with a body that forgets the text (a mutant)
RECURSIVE CloneDropText(_, _), CloneDropTextAll(_, _, _)
CloneDropText(h, id) ==
    LET h1 == Append(h, NewNode(h[id].type, <<>>, None, FALSE))
        new == Len(h1)
        r == CloneDropTextAll(h1, h[id].children, <<>>)
    IN <<[r[1] EXCEPT ![new].children = r[2]], new>>
CloneDropTextAll(h, ids, out) ==
    IF ids = <<>> THEN <<h, out>>
    ELSE LET r == CloneDropText(h, Head(ids))
         IN CloneDropTextAll(r[1], Tail(ids), Append(out, r[2]))

\* Node.clone: new_node = Node(type, text=text); new_node.children = clones
RECURSIVE CloneRec(_, _), CloneAll(_, _, _)
CloneRec(h, id) ==
    LET h1 == Append(h, NewNode(h[id].type, <<>>, h[id].text, FALSE))
        new == Len(h1)
        r == CloneAll(h1, h[id].children, <<>>)
    IN <<[r[1] EXCEPT ![new].children = r[2]], new>>
CloneAll(h, ids, out) ==
    IF ids = <<>> THEN <<h, out>>
    ELSE LET r == CloneRec(h, Head(ids))
         IN CloneAll(r[1], Tail(ids), Append(out, r[2]))

\* Node.clone copying the node only and keeping the children objects (a mutant)
CloneShallow(h, id) ==
    <<Append(h, NewNode(h[id].type, h[id].children, h[id].text, FALSE)), Len(h) + 1>>

clone(h, id) == CloneRec(h, id)

----------------------------------------------------------------------------
(* RenameIdentifiersRule *)

\* the rule without the recursion into the children (a mutant)
ApplyRootOnly(h, id) ==
    IF h[id].type = "identifier" /\ h[id].text # None
    THEN [h EXCEPT ![id].text = Some("x_" \o h[id].text[1])]
    ELSE h

\* the rule renaming every node that has a text, whatever its type (a mutant)
RECURSIVE ApplyAnyText(_, _), ApplyAnyTextAll(_, _)
ApplyAnyText(h, id) ==
    LET h1 == IF h[id].text # None
              THEN [h EXCEPT ![id].text = Some("x_" \o h[id].text[1])]
              ELSE h
    IN ApplyAnyTextAll(h1, h1[id].children)
ApplyAnyTextAll(h, ids) ==
    IF ids = <<>> THEN h ELSE ApplyAnyTextAll(ApplyAnyText(h, Head(ids)), Tail(ids))

\* RenameIdentifiersRule.apply: edits the nodes in place and returns the node
RECURSIVE ApplyRec(_, _), ApplyAll(_, _)
ApplyRec(h, id) ==
    LET h1 == IF h[id].type = "identifier" /\ h[id].text # None
              THEN [h EXCEPT ![id].text = Some("x_" \o h[id].text[1])]
              ELSE h
    IN ApplyAll(h1, h1[id].children)
ApplyAll(h, ids) ==
    IF ids = <<>> THEN h ELSE ApplyAll(ApplyRec(h, Head(ids)), Tail(ids))

RenameApply(h, id) == ApplyRec(h, id)

----------------------------------------------------------------------------
(* SIVerifier *)

\* SIVerifier.__init__
NewSIVerifier ==
    [errors |-> <<>>, renamed_paths |-> <<>>, ignored_paths |-> {}, success_count |-> 0]

\* an error string, by its parts: the kind, the path and the two interpolated
\* values (a type t is written Some(t), a text is None or Some(s))
Error(kind, path, a, b) == [kind |-> kind, path |-> path, a |-> a, b |-> b]

\* dict.get(key, default)
Get(d, key, default) == IF key \in DOMAIN d THEN d[key] ELSE default

\* _verify_node_integrity that checks the types only (a mutant)
IntegrityTypeOnly(self, h, orig, mut, path) ==
    IF h[orig].type # h[mut].type
    THEN [self EXCEPT !.errors =
             Append(@, Error("TYPE_MISMATCH", path, Some(h[orig].type), Some(h[mut].type)))]
    ELSE self

\* _verify_node_integrity that accepts any text at a path the manifest does
\* not rename (a mutant)
IntegrityNoUnexpectedChange(self, h, orig, mut, path) ==
    IF h[orig].type # h[mut].type
    THEN [self EXCEPT !.errors =
             Append(@, Error("TYPE_MISMATCH", path, Some(h[orig].type), Some(h[mut].type)))]
    ELSE IF path \in DOMAIN self.renamed_paths /\ h[mut].text # self.renamed_paths[path]
    THEN [self EXCEPT !.errors =
             Append(@, Error("MUTATION_FAIL", path, self.renamed_paths[path], h[mut].text))]
    ELSE self

\* _verify_node_integrity that compares with the original text at every path,
\* renamed or not (a mutant)
IntegrityIgnoresManifest(self, h, orig, mut, path) ==
    IF h[orig].type # h[mut].type
    THEN [self EXCEPT !.errors =
             Append(@, Error("TYPE_MISMATCH", path, Some(h[orig].type), Some(h[mut].type)))]
    ELSE IF h[orig].text # h[mut].text
    THEN [self EXCEPT !.errors =
             Append(@, Error("UNEXPECTED_CHANGE", path, h[orig].text, h[mut].text))]
    ELSE self

\* SIVerifier._verify_node_integrity: the type check returns at a mismatch, the
\* text check follows it
verify_node_integrity(self, h, orig, mut, path) ==
    IF h[orig].type # h[mut].type
    THEN [self EXCEPT !.errors =
             Append(@, Error("TYPE_MISMATCH", path, Some(h[orig].type), Some(h[mut].type)))]
    ELSE IF path \in DOMAIN self.renamed_paths
    THEN IF h[mut].text # self.renamed_paths[path]
         THEN [self EXCEPT !.errors =
                  Append(@, Error("MUTATION_FAIL", path, self.renamed_paths[path], h[mut].text))]
         ELSE self
    ELSE IF h[orig].text # h[mut].text
         THEN [self EXCEPT !.errors =
                  Append(@, Error("UNEXPECTED_CHANGE", path, h[orig].text, h[mut].text))]
         ELSE self

RECURSIVE verify_recursive(_, _, _, _, _), VerifyChildren(_, _, _, _, _, _)

\* _verify_recursive that skips the checks of an ignored node and still
\* descends into its children (a mutant)
WalkDescendsBelowIgnored(self, h, orig, mut, path) ==
    LET s1 == IF path \in self.ignored_paths THEN self
              ELSE verify_node_integrity(self, h, orig, mut, path)
    IN IF Len(h[orig].children) # Len(h[mut].children)
       THEN IF path \in self.ignored_paths THEN s1
            ELSE [s1 EXCEPT !.errors =
                     Append(@, Error("STRUCTURAL_MISMATCH", path, None, None))]
       ELSE VerifyChildren(s1, h, h[orig].children, h[mut].children, path, 0)

\* _verify_recursive that records the STRUCTURAL_MISMATCH and goes on to zip
\* the children (a mutant)
WalkContinuesAfterStructuralMismatch(self, h, orig, mut, path) ==
    IF path \in self.ignored_paths THEN self
    ELSE LET s1 == verify_node_integrity(self, h, orig, mut, path)
             s2 == IF Len(h[orig].children) # Len(h[mut].children)
                   THEN [s1 EXCEPT !.errors =
                            Append(@, Error("STRUCTURAL_MISMATCH", path, None, None))]
                   ELSE s1
         IN VerifyChildren(s2, h, h[orig].children, h[mut].children, path, 0)

\* _verify_recursive that returns when the node-integrity check has recorded
\* an error (a mutant)
WalkStopsAtIntegrityError(self, h, orig, mut, path) ==
    IF path \in self.ignored_paths THEN self
    ELSE LET s1 == verify_node_integrity(self, h, orig, mut, path)
         IN IF Len(s1.errors) # Len(self.errors) THEN s1
            ELSE IF Len(h[orig].children) # Len(h[mut].children)
            THEN [s1 EXCEPT !.errors =
                     Append(@, Error("STRUCTURAL_MISMATCH", path, None, None))]
            ELSE VerifyChildren(s1, h, h[orig].children, h[mut].children, path, 0)

\* SIVerifier._verify_recursive
verify_recursive(self, h, orig, mut, path) ==
    IF path \in self.ignored_paths THEN self
    ELSE LET s1 == verify_node_integrity(self, h, orig, mut, path)
         IN IF Len(h[orig].children) # Len(h[mut].children)
            THEN [s1 EXCEPT !.errors =
                     Append(@, Error("STRUCTURAL_MISMATCH", path, None, None))]
            ELSE VerifyChildren(s1, h, h[orig].children, h[mut].children, path, 0)

\* the loop of _verify_recursive over zip(orig.children, mut.children)
VerifyChildren(self, h, ocs, mcs, path, i) ==
    IF ocs = <<>> \/ mcs = <<>> THEN self
    ELSE VerifyChildren(verify_recursive(self, h, Head(ocs), Head(mcs), Append(path, i)),
                        h, Tail(ocs), Tail(mcs), path, i + 1)

\* SIVerifier.verify without the reset of the error list (a mutant)
VerifyNoReset(self, h, orig, mut, manifest) ==
    LET s0 == [self EXCEPT !.success_count = 0,
                           !.renamed_paths = Get(manifest, "renamed_paths", <<>>),
                           !.ignored_paths = Get(manifest, "ignored_paths", {})]
    IN verify_recursive(s0, h, orig, mut, <<0>>)

\* SIVerifier.verify: the verifier after the call; the call returns errors = []
verify(self, h, orig, mut, manifest) ==
    LET s0 == [self EXCEPT !.errors = <<>>,
                           !.success_count = 0,
                           !.renamed_paths = Get(manifest, "renamed_paths", <<>>),
                           !.ignored_paths = Get(manifest, "ignored_paths", {})]
    IN verify_recursive(s0, h, orig, mut, <<0>>)

----------------------------------------------------------------------------
(* Manifests: what json.load / the mock manifest can hold *)

SubsetsUpTo(S, n) == { T \in SUBSET S : Cardinality(T) <= n }

\* the dicts from some paths of P to expected texts
RenamedChoices(P) == UNION { [S -> ExpectedTexts] : S \in SubsetsUpTo(P, MaxEntries) }
IgnoredChoices(P) == SubsetsUpTo(P, MaxEntries)

\* the manifests with both keys over the paths P, of at most MaxEntries
\* entries, and the manifest {} (manifest.get(snippet_id, {}))
ManifestsOver(P) ==
    { m \in [renamed_paths : RenamedChoices(P), ignored_paths : IgnoredChoices(P)] :
          Cardinality(DOMAIN m.renamed_paths) + Cardinality(m.ignored_paths) <= MaxEntries }
    \cup { <<>> }

Manifests == ManifestsOver(PathUniverse)

----------------------------------------------------------------------------
(* Paths of a tree *)

RECURSIVE PathsFrom(_, _, _)
PathsFrom(h, id, p) ==
    {p} \cup UNION { PathsFrom(h, h[id].children[i], Append(p, i - 1)) :
                         i \in 1..Len(h[id].children) }
\* the paths of the tree rooted at root, the root being "0"
PathsOf(h, root) == PathsFrom(h, root, <<0>>)

RECURSIVE Descend(_, _, _)
Descend(h, id, rest) ==
    IF rest = <<>> THEN id
    ELSE Descend(h, h[id].children[Head(rest) + 1], Tail(rest))
\* the node at path p of the tree rooted at root
NodeAt(h, root, p) == Descend(h, root, Tail(p))

Prefixes(p) == { SubSeq(p, 1, k) : k \in 1..Len(p) }
ProperPrefixes(p) == { SubSeq(p, 1, k) : k \in 1..(Len(p) - 1) }
IsPrefix(q, p) == q \in Prefixes(p)

----------------------------------------------------------------------------
(* verify.py: two trees built by constructor expressions, one SIVerifier,  *)
(* one verify call                                                          *)

InitTrees(lits) ==
    \E lo \in lits, lm \in lits :
        LET ro == Build(<<>>, lo)
            rm == Build(ro[1], lm)
        IN /\ heap = rm[1]
           /\ original_cst = ro[2]
           /\ mutated_cst = rm[2]

\* no files and no run of the pipeline: the harnesses of verify.py and the tests
NoFiles == [dataset |-> None, manifest_json |-> None, summary_log |-> <<>>]
NoRun == [pc |-> "idle"]

InitRest ==
    /\ fs = NoFiles
    /\ run = NoRun
    /\ verifier = NewSIVerifier
    /\ snippet_manifest = <<>>
    /\ is_valid = FALSE
    /\ applied = 0
    /\ leftover = FALSE
    /\ pc = "ready"

Init == InitTrees(TreeLits) /\ InitRest

\* is_valid = verifier.verify(orig, mut, manifest)
Verify(orig, mut, manifest) ==
    /\ verifier' = verify(verifier, heap, orig, mut, manifest)
    /\ is_valid' = (Len(verifier'.errors) = 0)
    /\ original_cst' = orig
    /\ mutated_cst' = mut
    /\ snippet_manifest' = manifest
    /\ leftover' = (/\ verifier.errors # <<>>
                    /\ DOMAIN verifier.renamed_paths # {}
                    /\ verifier.ignored_paths # {})
    /\ pc' = "verified"
    /\ UNCHANGED <<heap, applied, fs, run>>

\* verify.main: verifier.verify(original_cst, mutated_cst, mock_manifest)
VerifyMock ==
    /\ pc = "ready"
    /\ \E manifest \in Manifests : Verify(original_cst, mutated_cst, manifest)

Next == VerifyMock

Spec == Init /\ [][Next]_vars

----------------------------------------------------------------------------
(* The latest verify call, read from the state *)

OrigAt(p) == heap[NodeAt(heap, original_cst, p)]
MutAt(p) == heap[NodeAt(heap, mutated_cst, p)]

\* the paths both trees have
CommonPaths == PathsOf(heap, original_cst) \cap PathsOf(heap, mutated_cst)

ManifestRenamed == Get(snippet_manifest, "renamed_paths", <<>>)
ManifestIgnored == Get(snippet_manifest, "ignored_paths", {})

SameType(p) == OrigAt(p).type = MutAt(p).type
SameCount(p) == Len(OrigAt(p).children) = Len(MutAt(p).children)
SameText(p) == OrigAt(p).text = MutAt(p).text

\* the text the manifest permits at p: the expected text of a renamed path, the
\* original text elsewhere
TextPermitted(p) ==
    IF p \in DOMAIN ManifestRenamed
    THEN MutAt(p).text = ManifestRenamed[p]
    ELSE SameText(p)

\* p is reached by the paired walk from the root: neither p nor an ancestor is
\* ignored, and every proper ancestor has the same child count in both trees
Walked(p) ==
    /\ \A q \in Prefixes(p) : q \notin ManifestIgnored
    /\ \A q \in ProperPrefixes(p) : SameCount(q)
Reached(p) == p \in CommonPaths /\ Walked(p)

ReachedPaths == { p \in CommonPaths : Walked(p) }

\* how many errors of one kind the error list holds at path p
ErrorCount(kind, p) ==
    Cardinality({ i \in DOMAIN verifier.errors :
                     verifier.errors[i].kind = kind /\ verifier.errors[i].path = p })
ErrorsAtPath(p) == { i \in DOMAIN verifier.errors : verifier.errors[i].path = p }

Verified == pc = "verified"

----------------------------------------------------------------------------
(* Claims about SIVerifier.verify on two arbitrary trees (Spec) *)

\* C1: verify returns true iff at every path reached by the paired walk the two
\* nodes have equal type, equal child count and the text the manifest permits
\* (the expected text at a renamed path, the original text elsewhere).
C1_VerifyIffReachedNodesAgree ==
    Verified =>
        (is_valid <=> \A p \in ReachedPaths :
                          SameType(p) /\ SameCount(p) /\ TextPermitted(p))

\* C1 witness: a call that returned true although a text differs at a renamed
\* path and a subtree below an ignored path differs.
C1_Witness ==
    /\ Verified /\ is_valid
    /\ \E p \in ReachedPaths : p \in DOMAIN ManifestRenamed /\ ~SameText(p)
    /\ \E q \in CommonPaths : q \in ManifestIgnored /\ ~SameType(q)

C3_Original ==
    Verified =>
        \A p \in CommonPaths :
            (p \in DOMAIN ManifestRenamed /\ MutAt(p).text = ManifestRenamed[p])
                => ErrorsAtPath(p) = {}

\* C3 (amended): when p is a key of renamed_paths and the mutated text at p is
\* the expected one, the error list holds no TEXT error (MUTATION_FAIL,
\* UNEXPECTED_CHANGE) at p, whatever the original text; a TYPE_MISMATCH or a
\* STRUCTURAL_MISMATCH at p is still recorded.
C3_NoTextErrorAtRenamedPath ==
    Verified =>
        \A p \in CommonPaths :
            (p \in DOMAIN ManifestRenamed /\ MutAt(p).text = ManifestRenamed[p])
                => /\ ErrorCount("MUTATION_FAIL", p) = 0
                   /\ ErrorCount("UNEXPECTED_CHANGE", p) = 0
                   /\ (Reached(p) /\ ~SameType(p)) => ErrorCount("TYPE_MISMATCH", p) = 1
                   /\ (Reached(p) /\ ~SameCount(p)) => ErrorCount("STRUCTURAL_MISMATCH", p) = 1

\* C3 witness: a reached renamed path whose mutated text is the expected one
\* and differs from the original text, with no error at that path.
C3_Witness ==
    /\ Verified
    /\ \E p \in ReachedPaths :
           /\ p \in DOMAIN ManifestRenamed /\ MutAt(p).text = ManifestRenamed[p]
           /\ ~SameText(p)
           /\ ErrorsAtPath(p) = {}

\* C4: no error is recorded at an ignored path or at a descendant of one,
\* whatever the two subtrees there are.
C4_NoErrorAtOrBelowIgnoredPath ==
    Verified =>
        \A i \in DOMAIN verifier.errors :
            \A g \in ManifestIgnored : ~IsPrefix(g, verifier.errors[i].path)

\* C4 witness: an ignored path of both trees, reached but for being ignored,
\* where the types and the child counts differ, and a call that returned true.
C4_Witness ==
    /\ Verified /\ is_valid
    /\ \E g \in CommonPaths :
           /\ g \in ManifestIgnored
           /\ \A q \in ProperPrefixes(g) : SameCount(q)
           /\ ~SameType(g) /\ ~SameCount(g)

\* C5: when the child counts differ at a reached path p, exactly one
\* STRUCTURAL_MISMATCH is recorded at p and no error at a strict descendant of
\* p, while every other reached path (the siblings' subtrees among them) is
\* still checked: its type, text and count mismatches are recorded.
C5_StructuralMismatchStopsOnlyItsSubtree ==
    Verified =>
        \A p \in ReachedPaths :
            ~SameCount(p) =>
                /\ ErrorCount("STRUCTURAL_MISMATCH", p) = 1
                /\ \A i \in DOMAIN verifier.errors :
                       LET q == verifier.errors[i].path
                       IN ~(IsPrefix(p, q) /\ q # p)
                /\ \A q \in ReachedPaths :
                       /\ ~SameType(q) => ErrorCount("TYPE_MISMATCH", q) = 1
                       /\ ~SameCount(q) => ErrorCount("STRUCTURAL_MISMATCH", q) = 1
                       /\ (SameType(q) /\ ~TextPermitted(q)) =>
                              ErrorCount("MUTATION_FAIL", q)
                                  + ErrorCount("UNEXPECTED_CHANGE", q) = 1

\* C5 witness: the counts differ at a reached path that has a strict
\* descendant, and a sibling of it carries a recorded mismatch.
C5_Witness ==
    /\ Verified
    /\ \E p \in ReachedPaths, q \in ReachedPaths :
           /\ ~SameCount(p)
           /\ Len(OrigAt(p).children) + Len(MutAt(p).children) > 0
           /\ Len(p) = Len(q) /\ p # q
           /\ ErrorsAtPath(q) # {}
           /\ \E i \in ErrorsAtPath(p), j \in ErrorsAtPath(q) : i < j

\* C6: a TYPE_MISMATCH recorded at p does not stop the walk: the count check at
\* p is still made, and with equal counts every child pair of p is compared.
C6_TypeMismatchContinuesWalk ==
    Verified =>
        \A p \in CommonPaths :
            ErrorCount("TYPE_MISMATCH", p) > 0 =>
                /\ ~SameCount(p) => ErrorCount("STRUCTURAL_MISMATCH", p) = 1
                /\ SameCount(p) =>
                       \A k \in 1..Len(OrigAt(p).children) :
                           LET c == Append(p, k - 1)
                           IN c \notin ManifestIgnored =>
                                 /\ ~SameType(c) => ErrorCount("TYPE_MISMATCH", c) = 1
                                 /\ ~SameCount(c) =>
                                        ErrorCount("STRUCTURAL_MISMATCH", c) = 1
                                 /\ (SameType(c) /\ ~TextPermitted(c)) =>
                                        ErrorCount("MUTATION_FAIL", c)
                                            + ErrorCount("UNEXPECTED_CHANGE", c) = 1

\* C6 witness: a TYPE_MISMATCH at a path with equal, non-zero child counts and
\* a text error recorded at one of its children.
C6_Witness ==
    /\ Verified
    /\ \E p \in ReachedPaths :
           /\ ErrorCount("TYPE_MISMATCH", p) = 1
           /\ SameCount(p) /\ OrigAt(p).children # <<>>
           /\ \E k \in 1..Len(OrigAt(p).children) :
                  ErrorCount("UNEXPECTED_CHANGE", Append(p, k - 1)) = 1

----------------------------------------------------------------------------
(* The clone-and-rename harness: one tree, its clone, the rename rule on the *)
(* clone, one verify call (SpecRename)                                       *)

InitRename ==
    /\ \E lo \in TreeLits \cup {MockCst} :
           LET ro == Build(<<>>, lo)
           IN heap = ro[1] /\ original_cst = ro[2]
    /\ mutated_cst = NoRef
    /\ InitRest

\* mutated_cst = original_cst.clone()
CloneOriginal ==
    /\ pc = "ready"
    /\ mutated_cst = NoRef
    /\ LET r == clone(heap, original_cst)
       IN heap' = r[1] /\ mutated_cst' = r[2]
    /\ UNCHANGED <<original_cst, verifier, snippet_manifest, is_valid, applied, leftover,
                   pc, fs, run>>

\* RenameIdentifiersRule().apply(mutated_cst): the nodes are edited in place
ApplyRule ==
    /\ pc = "ready"
    /\ mutated_cst # NoRef
    /\ applied < MaxApply
    /\ heap' = RenameApply(heap, mutated_cst)
    /\ applied' = applied + 1
    /\ UNCHANGED <<original_cst, mutated_cst, verifier, snippet_manifest, is_valid,
                   leftover, pc, fs, run>>

\* the paths of the identifier nodes with a text, in the tree rooted at root
IdentifierPaths(h, root) ==
    { p \in PathsOf(h, root) :
          LET n == h[NodeAt(h, root, p)]
          IN n.type = "identifier" /\ n.text # None }

\* a manifest written as verify.mock_manifest is: each path of S mapped to
\* "x_" + the original text there, nothing ignored
RenameManifest(h, root, S) ==
    [renamed_paths |-> [p \in S |-> Some("x_" \o h[NodeAt(h, root, p)].text[1])],
     ignored_paths |-> {}]

VerifyRename ==
    /\ pc = "ready"
    /\ mutated_cst # NoRef
    /\ \E manifest \in Manifests \cup
             { RenameManifest(heap, original_cst, S) :
                   S \in SUBSET IdentifierPaths(heap, original_cst) } :
           Verify(original_cst, mutated_cst, manifest)

NextRename == CloneOriginal \/ ApplyRule \/ VerifyRename

SpecRename == InitRename /\ [][NextRename]_vars

----------------------------------------------------------------------------
(* One SIVerifier used for call after call, on the two trees in either      *)
(* order (SpecReuse)                                                         *)

ReuseLits == UNION { LitsOf(s) : s \in ReuseShapes }

InitReuse == InitTrees(ReuseLits) /\ InitRest

VerifyAgain ==
    \E manifest \in ManifestsOver(ReusePaths),
       orig \in {original_cst, mutated_cst}, mut \in {original_cst, mutated_cst} :
        Verify(orig, mut, manifest)

NextReuse == VerifyAgain

SpecReuse == InitReuse /\ [][NextReuse]_vars

----------------------------------------------------------------------------
(* Parser: the quality filter and the conversion of Tree-sitter's tree *)

\* A Tree-sitter node type is a sequence of words, "return_statement" being
\* <<"return", "statement">>.  Every keyword of the parser is one word, and no
\* word of TsTypes holds a keyword as a proper part, so that `kw in node.type`
\* is: kw is one of the words.
Contains(type, kw) == \E i \in DOMAIN type : type[i] = kw

RECURSIVE TypeName(_)
TypeName(type) ==
    IF Len(type) = 1 THEN type[1] ELSE type[1] \o "_" \o TypeName(Tail(type))

MEANINGFUL_NODE_TYPES ==
    { "expression", "statement", "definition", "declaration", "assignment", "block", "suite" }
TRIVIAL_NODE_TYPES == { "return", "break", "continue", "empty" }
BODY_NODE_TYPES == { "block", "suite", "compound" }

\* str and bytes: a str is its sequence of characters, bytes a sequence of
\* numbers.  The characters of the sources: the small letters and some
\* punctuation of ASCII, and one character of two bytes.
LowerCase ==
    << "a", "b", "c", "d", "e", "f", "g", "h", "i", "j", "k", "l", "m",
       "n", "o", "p", "q", "r", "s", "t", "u", "v", "w", "x", "y", "z" >>
Punctuation ==
    [b \in { 9, 10, 13, 32, 40, 41, 58, 59, 61 } |->
        CASE b = 9 -> "\t" [] b = 10 -> "\n" [] b = 13 -> "\r" [] b = 32 -> " "
          [] b = 40 -> "(" [] b = 41 -> ")" [] b = 58 -> ":" [] b = 59 -> ";"
          [] b = 61 -> "="]
AsciiBytes == DOMAIN Punctuation \cup { b \in 0..127 : b - 96 \in DOMAIN LowerCase }
AsciiChar(b) == IF b \in DOMAIN Punctuation THEN Punctuation[b] ELSE LowerCase[b - 96]

\* bytes(code, "utf8")
CharBytes(c) ==
    IF c = "é" THEN << 195, 169 >>
    ELSE << CHOOSE b \in AsciiBytes : AsciiChar(b) = c >>
RECURSIVE Utf8Encode(_)
Utf8Encode(chars) ==
    IF chars = <<>> THEN <<>> ELSE CharBytes(Head(chars)) \o Utf8Encode(Tail(chars))

\* bytes.decode("utf8"), to the str as one string
RECURSIVE Utf8Decode(_)
Utf8Decode(bytes) ==
    IF bytes = <<>> THEN ""
    ELSE IF bytes[1] < 128 THEN AsciiChar(bytes[1]) \o Utf8Decode(Tail(bytes))
    ELSE IF bytes[1] = 195 /\ bytes[2] = 169
         THEN "é" \o Utf8Decode(SubSeq(bytes, 3, Len(bytes)))
    ELSE "?" \o Utf8Decode(Tail(bytes))

\* Tree-sitter nodes, as values: a leaf spans the bytes of its token, a node
\* with children those from its first child to its last
TsLeaf(type, named, start_byte, end_byte) ==
    [type |-> type, is_named |-> named, is_error |-> FALSE,
     start_byte |-> start_byte, end_byte |-> end_byte, children |-> <<>>]
TsInner(type, children) ==
    [type |-> type, is_named |-> TRUE, is_error |-> (type = <<"ERROR">>),
     start_byte |-> IF children = <<>> THEN 0 ELSE children[1].start_byte,
     end_byte |-> IF children = <<>> THEN 0 ELSE children[Len(children)].end_byte,
     children |-> children]

\* a node moved k bytes to the right in its source
RECURSIVE Shift(_, _)
Shift(node, k) ==
    [node EXCEPT !.start_byte = @ + k, !.end_byte = @ + k,
                 !.children = [i \in DOMAIN node.children |-> Shift(node.children[i], k)]]

TsIdentifier(start_byte, end_byte) == TsLeaf(<<"identifier">>, TRUE, start_byte, end_byte)

\* x=a
TsAssignment ==
    TsInner(<<"expression", "statement">>,
            << TsInner(<<"assignment">>,
                       << TsIdentifier(0, 1), TsLeaf(<<"=">>, FALSE, 1, 2),
                          TsIdentifier(2, 3) >>) >>)
\* é=a, the first identifier of two bytes
TsWideAssignment ==
    TsInner(<<"expression", "statement">>,
            << TsInner(<<"assignment">>,
                       << TsIdentifier(0, 2), TsLeaf(<<"=">>, FALSE, 2, 3),
                          TsIdentifier(3, 4) >>) >>)
\* return a
TsReturn ==
    TsInner(<<"return", "statement">>,
            << TsLeaf(<<"return">>, FALSE, 0, 6), TsIdentifier(7, 8) >>)
\* def f: and the statements of the body behind it
TsFunction(body) ==
    TsInner(<<"function", "definition">>,
            << TsLeaf(<<"def">>, FALSE, 0, 3), TsIdentifier(4, 5),
               TsInner(<<"block">>, [i \in DOMAIN body |-> Shift(body[i], 6)]) >>)

\* the roots Tree-sitter answers for the sources of TsCodes
TsModule(children) == TsInner(<<"module">>, children)

Parser_is_trivial(node) == \E t \in TRIVIAL_NODE_TYPES : Contains(node.type, t)
Parser_is_meaningful(node) == \E kw \in MEANINGFUL_NODE_TYPES : Contains(node.type, kw)

\* the first child whose type names a body, or none
BodyIndex(node) ==
    LET hits == { i \in DOMAIN node.children :
                      \E kw \in BODY_NODE_TYPES : Contains(node.children[i].type, kw) }
    IN IF hits = {} THEN 0 ELSE CHOOSE i \in hits : \A j \in hits : i <= j

\* the search going through the named children of the node itself as well as
\* those of its body (a mutant)
HasMeaningfulAnywhere(node) ==
    LET b == BodyIndex(node)
        targets == IF b # 0 THEN { node.children[b], node } ELSE { node }
    IN \E target \in targets : \E i \in DOMAIN target.children :
           /\ target.children[i].is_named
           /\ Parser_is_meaningful(target.children[i])
           /\ ~Parser_is_trivial(target.children[i])

has_meaningful_structure(node) ==
    LET b == BodyIndex(node)
        target == IF b # 0 THEN node.children[b] ELSE node
    IN \E i \in DOMAIN target.children :
           /\ target.children[i].is_named
           /\ Parser_is_meaningful(target.children[i])
           /\ ~Parser_is_trivial(target.children[i])

\* A source text is its sequence of characters; str.strip() takes the
\* whitespace away at both ends.
Whitespace == { " ", "\t", "\n", "\r" }
RECURSIVE LStrip(_), RStrip(_)
LStrip(source) ==
    IF source # <<>> /\ Head(source) \in Whitespace THEN LStrip(Tail(source)) ELSE source
RStrip(source) ==
    IF source # <<>> /\ source[Len(source)] \in Whitespace
    THEN RStrip(SubSeq(source, 1, Len(source) - 1))
    ELSE source
Strip(source) == RStrip(LStrip(source))

\* should_discard asking for the children in error before it asks whether
\* there is a child (a mutant)
ShouldDiscardErrorsFirst(root, source) ==
    IF Strip(source) = <<>> THEN Some("empty_source")
    ELSE IF \A i \in DOMAIN root.children : root.children[i].is_error
         THEN Some("root_error_only")
    ELSE IF Len(root.children) < 1 THEN Some("no_children")
    ELSE IF ~ \E i \in DOMAIN root.children : has_meaningful_structure(root.children[i])
         THEN Some("no_meaningful_structure")
    ELSE None

\* Parser.should_discard(root, source): a reason, or None
should_discard(root, source) ==
    IF Strip(source) = <<>> THEN Some("empty_source")
    ELSE IF Len(root.children) < 1 THEN Some("no_children")
    ELSE IF \A i \in DOMAIN root.children : root.children[i].is_error
         THEN Some("root_error_only")
    ELSE IF ~ \E i \in DOMAIN root.children : has_meaningful_structure(root.children[i])
         THEN Some("no_meaningful_structure")
    ELSE None

\* source_bytes[start:end]
Slice(bytes, start, end) == SubSeq(bytes, start + 1, end)

\* convert_node keeping a text on the nodes with children too (a mutant)
RECURSIVE ConvertKeepingText(_, _, _), ConvertKeepingTextAll(_, _, _, _)
ConvertKeepingText(h, ts_node, source_bytes) ==
    LET text == Some(Utf8Decode(Slice(source_bytes, ts_node.start_byte, ts_node.end_byte)))
        r == ConvertKeepingTextAll(h, ts_node.children, source_bytes, <<>>)
        node == NewNode(TypeName(ts_node.type), r[2], text, FALSE)
    IN <<Append(r[1], node), Len(r[1]) + 1>>
ConvertKeepingTextAll(h, nodes, source_bytes, ids) ==
    IF nodes = <<>> THEN <<h, ids>>
    ELSE LET r == ConvertKeepingText(h, Head(nodes), source_bytes)
         IN ConvertKeepingTextAll(r[1], Tail(nodes), source_bytes, Append(ids, r[2]))

\* convert_node taking one byte more than the node spans (a mutant)
RECURSIVE ConvertOneByteMore(_, _, _), ConvertOneByteMoreAll(_, _, _, _)
ConvertOneByteMore(h, ts_node, source_bytes) ==
    LET text == IF Len(ts_node.children) = 0
                THEN Some(Utf8Decode(Slice(source_bytes, ts_node.start_byte,
                                           ts_node.end_byte + 1)))
                ELSE None
        r == ConvertOneByteMoreAll(h, ts_node.children, source_bytes, <<>>)
        node == NewNode(TypeName(ts_node.type), r[2], text, FALSE)
    IN <<Append(r[1], node), Len(r[1]) + 1>>
ConvertOneByteMoreAll(h, nodes, source_bytes, ids) ==
    IF nodes = <<>> THEN <<h, ids>>
    ELSE LET r == ConvertOneByteMore(h, Head(nodes), source_bytes)
         IN ConvertOneByteMoreAll(r[1], Tail(nodes), source_bytes, Append(ids, r[2]))

\* adapter.convert_node: the text of a leaf, None for a node with children
RECURSIVE convert_node(_, _, _), ConvertAll(_, _, _, _)
convert_node(h, ts_node, source_bytes) ==
    LET text == IF Len(ts_node.children) = 0
                THEN Some(Utf8Decode(Slice(source_bytes, ts_node.start_byte,
                                           ts_node.end_byte)))
                ELSE None
        r == ConvertAll(h, ts_node.children, source_bytes, <<>>)
        node == NewNode(TypeName(ts_node.type), r[2], text, FALSE)
    IN <<Append(r[1], node), Len(r[1]) + 1>>
ConvertAll(h, nodes, source_bytes, ids) ==
    IF nodes = <<>> THEN <<h, ids>>
    ELSE LET r == convert_node(h, Head(nodes), source_bytes)
         IN ConvertAll(r[1], Tail(nodes), source_bytes, Append(ids, r[2]))

\* Python values of more than one class
NodeRef(id) == [class |-> "Node", ref |-> id]
Tuple(a, b) == [class |-> "tuple", items |-> <<a, b>>]
HasPretty(v) == v.class = "Node"

\* the languages of the language pack, and one that is not
SupportedLanguage == { "python" }
Languages == { "python", "klingon" }

\* A source: whether it encodes as UTF-8, its characters, and the root
\* Tree-sitter answers for it.
Code(utf8, text, root) == [utf8 |-> utf8, text |-> text, ts |-> root]
DefF == << "d", "e", "f", " ", "f", ":" >>
TsCodes ==
    { Code(TRUE, << " ", "\n" >>, TsModule(<<>>)),
      Code(TRUE, << ";" >>, TsModule(<<>>)),
      Code(TRUE, << "a", ")" >>, TsModule(<< TsInner(<<"ERROR">>, << TsIdentifier(0, 1) >>) >>)),
      Code(TRUE, DefF \o << "r", "e", "t", "u", "r", "n", " ", "a" >>,
           TsModule(<< TsFunction(<< TsReturn >>) >>)),
      Code(TRUE, << "x", "=", "a" >>, TsModule(<< TsAssignment >>)),
      Code(TRUE, << "é", "=", "a" >>, TsModule(<< TsWideAssignment >>)),
      Code(TRUE, DefF \o << "x", "=", "a" >>, TsModule(<< TsFunction(<< TsAssignment >>) >>)),
      Code(FALSE, << "x", "=", "a" >>, TsModule(<< TsAssignment >>)) }

\* Parser.parse(code, language): raises ValueError, or returns the pair
\* (None, reason) or (tree, None)
parse(h, code, language) ==
    IF language \notin SupportedLanguage
    THEN [heap |-> h, raised |-> Some("ValueError"), value |-> None]
    ELSE IF ~code.utf8
    THEN [heap |-> h, raised |-> None, value |-> Tuple(None, Some("invalid_utf8"))]
    ELSE LET reason == should_discard(code.ts, code.text)
         IN IF reason # None
            THEN [heap |-> h, raised |-> None, value |-> Tuple(None, reason)]
            ELSE LET r == convert_node(h, code.ts, Utf8Encode(code.text))
                 IN [heap |-> r[1], raised |-> None,
                     value |-> Tuple(Some(NodeRef(r[2])), None)]

\* a tree of the heap as a value: type, text and children in order
RECURSIVE TreeValue(_, _)
TreeValue(h, id) ==
    [type |-> h[id].type, text |-> h[id].text,
     children |-> [i \in DOMAIN h[id].children |-> TreeValue(h, h[id].children[i])]]

----------------------------------------------------------------------------
(* MutationEngine and the rule registry *)

RULE_REGISTRY == { "rename-identifier" }

\* A rule of the engine is any object with an apply method.  Besides the rule
\* of the registry, one stand-in of that interface: it edits nothing in place
\* and returns a copy of its input in which every "identifier" is a "name".
RECURSIVE RetypeCopy(_, _), RetypeCopyAll(_, _, _)
RetypeCopy(h, id) ==
    LET type == IF h[id].type = "identifier" THEN "name" ELSE h[id].type
        h1 == Append(h, NewNode(type, <<>>, h[id].text, FALSE))
        new == Len(h1)
        r == RetypeCopyAll(h1, h[id].children, <<>>)
    IN <<[r[1] EXCEPT ![new].children = r[2]], new>>
RetypeCopyAll(h, ids, out) ==
    IF ids = <<>> THEN <<h, out>>
    ELSE LET r == RetypeCopy(h, Head(ids))
         IN RetypeCopyAll(r[1], Tail(ids), Append(out, r[2]))

RuleObjects == { "rename-identifier", "retype-copy" }

\* rule.apply(cst): <<heap', the node returned>>
RuleApply(rule, h, cst) ==
    IF rule = "rename-identifier" THEN <<RenameApply(h, cst), cst>>
    ELSE RetypeCopy(h, cst)

\* the engine with the rules taken last to first (a mutant)
RECURSIVE ApplyMutationsReversed(_, _, _)
ApplyMutationsReversed(h, rules, cst) ==
    IF rules = <<>> THEN <<h, cst>>
    ELSE LET r == RuleApply(rules[Len(rules)], h, cst)
         IN ApplyMutationsReversed(r[1], SubSeq(rules, 1, Len(rules) - 1), r[2])

\* MutationEngine.applyMutations: cst = rule.apply(cst), rule after rule
RECURSIVE applyMutations(_, _, _)
applyMutations(h, rules, cst) ==
    IF rules = <<>> THEN <<h, cst>>
    ELSE LET r == RuleApply(Head(rules), h, cst)
         IN applyMutations(r[1], Tail(rules), r[2])

\* a string that is not an error string, in the shape of one
Text(s) == Error(s, <<>>, <<>>, <<>>)

\* the row csv.writer writes for [snippet_id, score, reason]: str(1.0) is "1.0"
SummaryRow(self, snippet_id, verified) ==
    LET score == IF verified THEN "1.0" ELSE "0.0"
        reason == IF verified THEN Text("N/A")
                  ELSE IF self.errors # <<>> THEN self.errors[1]
                  ELSE Text("Mismatch")
    IN <<snippet_id, score, reason>>

\* write_summary with the file opened to be written, not appended to (a mutant)
WriteSummaryTruncating(files, self, snippet_id, verified) ==
    [files EXCEPT !.summary_log = << SummaryRow(self, snippet_id, verified) >>]

\* write_summary with the last error for reason (a mutant)
WriteSummaryLastError(files, self, snippet_id, verified) ==
    LET row == SummaryRow(self, snippet_id, verified)
        reason == IF self.errors # <<>> THEN self.errors[Len(self.errors)] ELSE row[3]
    IN [files EXCEPT !.summary_log = Append(@, <<row[1], row[2], reason>>)]

\* SIVerifier.write_summary: one row appended to summary_log.csv
write_summary(files, self, snippet_id, verified) ==
    [files EXCEPT !.summary_log = Append(@, SummaryRow(self, snippet_id, verified))]

----------------------------------------------------------------------------
(* cli.run_pipeline(filepath, rules) (SpecPipeline)                         *)

SnippetId(idx) == "row_" \o ToString(idx)

Samples == { [code |-> c, language |-> l] : c \in TsCodes, l \in Languages }

RECURSIVE SeqsUpTo(_, _)
SeqsUpTo(S, n) ==
    IF n = 0 THEN { <<>> }
    ELSE LET shorter == SeqsUpTo(S, n - 1)
         IN shorter \cup { Append(q, x) : q \in { r \in shorter : Len(r) = n - 1 }, x \in S }

\* the file at filepath: missing, or a table of at most MaxRows samples
Datasets == { None } \cup { Some(rows) : rows \in SeqsUpTo(Samples, MaxRows) }

\* manifest.json next to cli.py: missing, {} or entries for row_0
ManifestFiles ==
    { None, Some(<<>>) } \cup
    { Some([k \in { SnippetId(0) } |-> m]) :
          m \in { [renamed_paths |-> [p \in { <<0, 0, 0, 0>> } |-> Some("x_x")],
                   ignored_paths |-> {}],
                  [renamed_paths |-> <<>>, ignored_paths |-> { <<0>> }] } }

RuleArgs == { <<>>, <<"rename-identifier">>, <<"no-such-rule">> }

InitPipeline ==
    /\ heap = <<>>
    /\ original_cst = NoRef
    /\ mutated_cst = NoRef
    /\ verifier = NewSIVerifier
    /\ snippet_manifest = <<>>
    /\ is_valid = FALSE
    /\ applied = 0
    /\ leftover = FALSE
    /\ pc = "ready"
    /\ \E d \in Datasets, m \in ManifestFiles :
           fs = [dataset |-> d, manifest_json |-> m, summary_log |-> <<>>]
    /\ \E rules \in RuleArgs :
           run = [pc |-> "start", rules |-> rules, df |-> <<>>, engine |-> <<>>,
                  manifest |-> <<>>, idx |-> 0, orig_cst |-> None, parsed |-> None,
                  exc |-> None]

Raise(exc) == [run EXCEPT !.pc = "raised", !.exc = Some(exc)]

\* lines 41-43: DataLoader(filepath).load(), print_entries()
LoadData ==
    /\ run.pc = "start"
    /\ run' = IF fs.dataset = None
              THEN Raise("FileNotFoundError")
              ELSE [run EXCEPT !.pc = "loaded", !.df = fs.dataset[1]]
    /\ UNCHANGED <<heap, original_cst, mutated_cst, verifier, snippet_manifest, is_valid,
                   applied, leftover, pc, fs>>

\* the engine and the verifier made without a look at the rule names (a mutant)
CheckRulesUnchecked ==
    /\ run.pc = "loaded"
    /\ run' = [run EXCEPT !.pc = "configured", !.engine = run.rules]
    /\ verifier' = NewSIVerifier
    /\ UNCHANGED <<heap, original_cst, mutated_cst, snippet_manifest, is_valid,
                   applied, leftover, pc, fs>>

\* lines 45-57: the rule names are checked, the engine and the verifier made
CheckRules ==
    /\ run.pc = "loaded"
    /\ LET unsupported_rules ==
               SelectSeq(run.rules, LAMBDA rule : rule \notin RULE_REGISTRY)
       IN IF Len(unsupported_rules) > 0
          THEN run' = Raise("ValueError") /\ verifier' = verifier
          ELSE /\ run' = [run EXCEPT !.pc = "configured", !.engine = run.rules]
               /\ verifier' = NewSIVerifier
    /\ UNCHANGED <<heap, original_cst, mutated_cst, snippet_manifest, is_valid,
                   applied, leftover, pc, fs>>

\* a missing manifest.json taken for the manifest {} (a mutant)
LoadManifestOrEmpty ==
    /\ run.pc = "configured"
    /\ run' = IF fs.manifest_json = None
              THEN [run EXCEPT !.pc = "loop", !.manifest = <<>>]
              ELSE [run EXCEPT !.pc = "loop", !.manifest = fs.manifest_json[1]]
    /\ UNCHANGED <<heap, original_cst, mutated_cst, verifier, snippet_manifest, is_valid,
                   applied, leftover, pc, fs>>

\* lines 59-67: manifest.json is read; without the file the function returns
LoadManifest ==
    /\ run.pc = "configured"
    /\ run' = IF fs.manifest_json = None
              THEN [run EXCEPT !.pc = "returned"]
              ELSE [run EXCEPT !.pc = "loop", !.manifest = fs.manifest_json[1]]
    /\ UNCHANGED <<heap, original_cst, mutated_cst, verifier, snippet_manifest, is_valid,
                   applied, leftover, pc, fs>>

\* lines 69-87, one turn of the loop: parse, pretty, clone, applyMutations,
\* pretty, verify, write_summary
ProcessRow ==
    /\ run.pc = "loop"
    /\ run.idx < Len(run.df)
    /\ LET row == run.df[run.idx + 1]
           snippet_id == SnippetId(run.idx)
           manifest == Get(run.manifest, snippet_id, <<>>)
           res == parse(heap, row.code, row.language)
           orig_cst == res.value
           parsed == IF orig_cst.items[1] = None THEN None
                     ELSE Some(TreeValue(res.heap, orig_cst.items[1][1].ref))
       IN IF res.raised # None
          THEN /\ run' = Raise(res.raised[1])
               /\ UNCHANGED <<heap, original_cst, mutated_cst, verifier, snippet_manifest,
                              is_valid, applied, leftover, pc, fs>>
          ELSE IF ~HasPretty(orig_cst)
          THEN \* orig_cst.pretty() on what parse returned
               /\ run' = [Raise("AttributeError") EXCEPT
                              !.orig_cst = Some(orig_cst), !.parsed = parsed]
               /\ heap' = res.heap
               /\ UNCHANGED <<original_cst, mutated_cst, verifier, snippet_manifest,
                              is_valid, applied, leftover, pc, fs>>
          ELSE LET c == clone(res.heap, orig_cst.ref)
                   m == applyMutations(c[1], run.engine, c[2])
                   v == verify(verifier, m[1], orig_cst.ref, m[2], manifest)
                   verified == Len(v.errors) = 0
               IN /\ heap' = m[1]
                  /\ original_cst' = orig_cst.ref
                  /\ mutated_cst' = m[2]
                  /\ snippet_manifest' = manifest
                  /\ verifier' = v
                  /\ is_valid' = verified
                  /\ applied' = applied + Len(run.engine)
                  /\ leftover' = leftover
                  /\ pc' = "verified"
                  /\ fs' = write_summary(fs, v, snippet_id, verified)
                  /\ run' = [run EXCEPT !.idx = @ + 1, !.orig_cst = Some(orig_cst),
                                        !.parsed = parsed]

\* the loop is over: run_pipeline returns
Finish ==
    /\ run.pc = "loop"
    /\ run.idx = Len(run.df)
    /\ run' = [run EXCEPT !.pc = "returned"]
    /\ UNCHANGED <<heap, original_cst, mutated_cst, verifier, snippet_manifest, is_valid,
                   applied, leftover, pc, fs>>

NextPipeline == LoadData \/ CheckRules \/ LoadManifest \/ ProcessRow \/ Finish

SpecPipeline == InitPipeline /\ [][NextPipeline]_vars

----------------------------------------------------------------------------
(* Claims about run_pipeline *)

\* the parser answered a tree for the sample the loop worked on last
ParserReturnedTree == run.pc \in { "loop", "raised", "returned" } /\ run.parsed # None

\* C10: in run_pipeline, for every sample the parser returns a tree for, verify
\* is handed an original tree that is node for node (type, text, child order)
\* the tree the parser returned, the rules having worked on a clone.
C10_VerifyHandedParsersTree ==
    ParserReturnedTree =>
        /\ pc = "verified"
        /\ TreeValue(heap, original_cst) = run.parsed[1]

\* the loop has handled a sample that the quality filter rejected
SampleRejected == run.orig_cst # None /\ run.orig_cst[1].items[1] = None

\* C15: a sample the quality filter rejects is skipped: no rule is applied to
\* it, verify is not called for it, nothing is logged for it, and the pipeline
\* goes on to the next sample.
C15_RejectedSampleIsSkipped ==
    SampleRejected =>
        /\ run.pc \in { "loop", "returned" }
        /\ run.exc = None
        /\ applied = 0
        /\ pc = "ready"
        /\ fs.summary_log = <<>>

UnknownRule == \E i \in DOMAIN run.rules : run.rules[i] \notin RULE_REGISTRY

\* the loop was entered and its current row names a language outside the pack
AtUnsupportedLanguage ==
    /\ ~UnknownRule
    /\ run.pc = "raised"
    /\ run.idx < Len(run.df)
    /\ run.df[run.idx + 1].language \notin SupportedLanguage

C17_MissingManifestEndsRun ==
    fs.manifest_json = None =>
        /\ run.pc \in { "start", "loaded", "configured", "raised", "returned" }
        /\ run.manifest = <<>>
        /\ heap = <<>> /\ run.orig_cst = None
        /\ applied = 0
        /\ pc = "ready"
        /\ fs.summary_log = <<>>

\* C17 witness: the rename rule, a dataset whose first sample the parser
\* accepts, no manifest.json: run_pipeline has returned with row 0 untouched.
C17_Witness ==
    /\ fs.manifest_json = None
    /\ run.pc = "returned"
    /\ run.rules = <<"rename-identifier">>
    /\ Len(run.df) > 0
    /\ run.df[1].language \in SupportedLanguage
    /\ parse(<<>>, run.df[1].code, run.df[1].language).value.items[1] # None
    /\ run.idx = 0 /\ heap = <<>>

----------------------------------------------------------------------------
(* Claims about the clone, the rename rule and the reuse of a verifier *)

NoEntries == DOMAIN ManifestRenamed = {} /\ ManifestIgnored = {}

\* C7 (SpecRename): verify(T, T.clone(), {}) returns true and leaves the error
\* list empty, for any tree T.
C7_CloneVerifiesAgainstOriginal ==
    (Verified /\ applied = 0 /\ NoEntries) =>
        (is_valid /\ verifier.errors = <<>>)

\* C7 witness: the call made on mock_cst and its clone with the manifest {}.
C7_Witness ==
    /\ Verified /\ applied = 0 /\ snippet_manifest = <<>>
    /\ Cardinality(PathsOf(heap, original_cst)) = 11
    /\ Cardinality(PathsOf(heap, mutated_cst)) = 11
    /\ original_cst # mutated_cst
    /\ is_valid

\* the latest call was given the manifest written for the rename of the paths S
IsRenameManifest(S) ==
    /\ DOMAIN snippet_manifest = {"renamed_paths", "ignored_paths"}
    /\ S \subseteq IdentifierPaths(heap, original_cst)
    /\ snippet_manifest = RenameManifest(heap, original_cst, S)

\* C9 (SpecRename): after the rename rule ran once on T.clone() and the
\* manifest maps each path of S (identifier nodes with text) to "x_" + the
\* original text, the error list is exactly one UNEXPECTED_CHANGE at each
\* identifier-with-text path outside S, in path order of the walk, and verify
\* returns true exactly when S covers every such path.
C9_RenameVerifiesExactlyOnManifestPaths ==
    LET S == DOMAIN ManifestRenamed
        ids == IdentifierPaths(heap, original_cst)
    IN (Verified /\ applied = 1 /\ IsRenameManifest(S)) =>
           /\ \A i \in DOMAIN verifier.errors :
                  /\ verifier.errors[i].kind = "UNEXPECTED_CHANGE"
                  /\ verifier.errors[i].path \in ids \ S
           /\ \A p \in ids \ S : ErrorCount("UNEXPECTED_CHANGE", p) = 1
           /\ Len(verifier.errors) = Cardinality(ids \ S)
           /\ is_valid <=> (ids \subseteq S)

\* C9 witness (scenario B): mock_cst, renamed, with the manifest of scenario A
\* less the path 0.1.1: one UNEXPECTED_CHANGE, at 0.1.1.
C9_Witness ==
    /\ Verified /\ applied = 1
    /\ IsRenameManifest({ <<0, 0>>, <<0, 1, 0>>, <<0, 2, 0, 0, 0>>, <<0, 2, 0, 0, 2>> })
    /\ ~is_valid
    /\ Len(verifier.errors) = 1
    /\ verifier.errors[1] =
           Error("UNEXPECTED_CHANGE", <<0, 1, 1>>, Some("b"), Some("x_b"))

\* C8 (SpecReuse): whatever calls came before on the same SIVerifier, the
\* result and the error list of a call are those of a fresh verifier given the
\* same trees and manifest, and the path tables are those of the manifest.
C8_VerifyIsFunctionOfItsInputs ==
    Verified =>
        LET fresh == verify(NewSIVerifier, heap, original_cst, mutated_cst, snippet_manifest)
        IN /\ verifier.errors = fresh.errors
           /\ is_valid = (fresh.errors = <<>>)
           /\ DOMAIN verifier.renamed_paths = DOMAIN ManifestRenamed
           /\ \A p \in DOMAIN ManifestRenamed :
                  verifier.renamed_paths[p] = ManifestRenamed[p]
           /\ verifier.ignored_paths = ManifestIgnored

\* C8 witness: a call that returned true with the manifest {} on a verifier
\* that held errors, renamed paths and ignored paths from the call before.
C8_Witness ==
    /\ Verified /\ leftover
    /\ snippet_manifest = <<>>
    /\ is_valid /\ verifier.errors = <<>>
    /\ original_cst # mutated_cst

----------------------------------------------------------------------------
(* mutate.py: one tree, one MutationEngine, one applyMutations call         *)
(* (SpecEngine)                                                             *)

RuleLists == SeqsUpTo(RuleObjects, MaxRules)

\* a tree with a node whose type holds "identifier" without being it
TypedCst ==
    InnerLit("declaration", << LeafLit("type_identifier", "T"), LeafLit("identifier", "a") >>)

InitEngine ==
    /\ \E lo \in TreeLits \cup {MockCst, TypedCst}, rules \in RuleLists :
           LET ro == Build(<<>>, lo)
           IN /\ heap = ro[1]
              /\ original_cst = ro[2]
              /\ run = [pc |-> "mutate", rules |-> rules, before |-> ro[1]]
    /\ mutated_cst = NoRef
    /\ fs = NoFiles
    /\ verifier = NewSIVerifier
    /\ snippet_manifest = <<>>
    /\ is_valid = FALSE
    /\ applied = 0
    /\ leftover = FALSE
    /\ pc = "ready"

\* mutated = MutationEngine(rules).applyMutations(cst)
ApplyMutations ==
    /\ run.pc = "mutate"
    /\ LET m == applyMutations(heap, run.rules, original_cst)
       IN heap' = m[1] /\ mutated_cst' = m[2]
    /\ applied' = applied + Len(run.rules)
    /\ run' = [run EXCEPT !.pc = "mutated"]
    /\ UNCHANGED <<original_cst, verifier, snippet_manifest, is_valid, leftover, pc, fs>>

NextEngine == ApplyMutations

SpecEngine == InitEngine /\ [][NextEngine]_vars

\* the heap and the tree after the first k rules of the list, each applied
\* once to what the rule before it returned
RECURSIVE AfterRules(_, _, _, _)
AfterRules(rules, h, cst, k) ==
    IF k = 0 THEN <<h, cst>>
    ELSE LET prev == AfterRules(rules, h, cst, k - 1)
         IN RuleApply(rules[k], prev[1], prev[2])

\* C11: applyMutations applies each rule once, in list order, the tree a rule
\* returns being the input of the next, and returns what the last rule
\* returned; with no rule it returns its input and changes nothing.
C11_ApplyMutationsFoldsRulesInOrder ==
    run.pc = "mutated" =>
        /\ <<heap, mutated_cst>> =
               AfterRules(run.rules, run.before, original_cst, Len(run.rules))
        /\ run.rules = <<>> => (mutated_cst = original_cst /\ heap = run.before)

\* C11 witness: the stand-in rule then the rename rule, on a tree with an
\* identifier to rename: the rename rule got the copy, where no node is an
\* identifier, and the copy is what the engine returned.
C11_Witness ==
    /\ run.pc = "mutated"
    /\ run.rules = <<"retype-copy", "rename-identifier">>
    /\ IdentifierPaths(run.before, original_cst) # {}
    /\ mutated_cst # original_cst
    /\ TreeValue(heap, original_cst) = TreeValue(run.before, original_cst)
    /\ IdentifierPaths(heap, mutated_cst) = {}

\* the rename rule alone was applied, in place, to the tree at original_cst
RenameApplied ==
    /\ run.pc = "mutated"
    /\ run.rules = <<"rename-identifier">>

IsIdentifierWithText(n) == n.type = "identifier" /\ n.text # None

\* C12: RenameIdentifiersRule.apply puts "x_" before the text of exactly the
\* nodes of type "identifier" that have a text, at every depth; every other
\* text and every type, child count and child order stay, and so do the paths.
C12_RenameTouchesExactlyIdentifierTexts ==
    RenameApplied =>
        /\ mutated_cst = original_cst
        /\ DOMAIN heap = DOMAIN run.before
        /\ \A id \in DOMAIN heap :
               /\ heap[id].type = run.before[id].type
               /\ heap[id].children = run.before[id].children
               /\ heap[id].text =
                      IF IsIdentifierWithText(run.before[id])
                      THEN Some("x_" \o run.before[id].text[1])
                      ELSE run.before[id].text
        /\ PathsOf(heap, mutated_cst) = PathsOf(run.before, original_cst)

\* C12 witness: the rule on mock_cst: the five identifiers, two of them four
\* levels down, are renamed and the operator "+" keeps its text.
C12_Witness ==
    /\ RenameApplied
    /\ TreeValue(run.before, original_cst) = MockCst
    /\ Cardinality(IdentifierPaths(run.before, original_cst)) = 5
    /\ heap[NodeAt(heap, mutated_cst, <<0, 2, 0, 0, 0>>)].text = Some("x_a")
    /\ heap[NodeAt(heap, mutated_cst, <<0, 2, 0, 0, 1>>)].text = Some("+")

----------------------------------------------------------------------------
(* The quality filter on a root and a source text, as the tests of the      *)
(* parser call it (SpecFilter)                                              *)

TsBlock(type, children) == TsInner(type, children)

\* the nodes a root is given as children
TsStatements ==
    { TsInner(<<"ERROR">>, << TsIdentifier(0, 1) >>),
      TsReturn,
      TsAssignment,
      TsIdentifier(0, 1),
      TsLeaf(<<"statement">>, FALSE, 0, 1),
      TsFunction(<< TsReturn >>),
      TsFunction(<< TsAssignment >>),
      TsBlock(<<"block">>, << TsReturn >>),
      TsBlock(<<"compound", "statement">>, << TsAssignment >>) }

TsRoots == { TsModule(children) : children \in SeqsUpTo(TsStatements, MaxChildren) }

Sources == { <<>>, << " " >>, << "\n", "\t" >>, << "x" >>, << " ", "x", "\n" >> }

InitFilter ==
    /\ \E root \in TsRoots, source \in Sources :
           run = [pc |-> "input", root |-> root, source |-> source,
                  reason |-> None, meaningful |-> FALSE]
    /\ heap = <<>>
    /\ original_cst = NoRef
    /\ mutated_cst = NoRef
    /\ fs = NoFiles
    /\ verifier = NewSIVerifier
    /\ snippet_manifest = <<>>
    /\ is_valid = FALSE
    /\ applied = 0
    /\ leftover = FALSE
    /\ pc = "ready"

\* reason = parser.should_discard(root, source)
ShouldDiscard ==
    /\ run.pc = "input"
    /\ run' = [run EXCEPT !.pc = "classified",
                          !.reason = should_discard(run.root, run.source)]
    /\ UNCHANGED <<heap, original_cst, mutated_cst, verifier, snippet_manifest, is_valid,
                   applied, leftover, pc, fs>>

\* parser.has_meaningful_structure(root)
HasMeaningfulStructure ==
    /\ run.pc = "input"
    /\ run' = [run EXCEPT !.pc = "inspected",
                          !.meaningful = has_meaningful_structure(run.root)]
    /\ UNCHANGED <<heap, original_cst, mutated_cst, verifier, snippet_manifest, is_valid,
                   applied, leftover, pc, fs>>

NextFilter == ShouldDiscard \/ HasMeaningfulStructure

SpecFilter == InitFilter /\ [][NextFilter]_vars

----------------------------------------------------------------------------
(* Claims about the quality filter *)

IsWhitespaceOnly(source) == \A i \in DOMAIN source : source[i] \in Whitespace

\* a type holds a keyword of the list
HoldsAny(type, keywords) == \E kw \in keywords : Contains(type, kw)

\* node is a named child that counts: a meaningful keyword and no trivial one
Counts(node) ==
    /\ node.is_named
    /\ HoldsAny(node.type, MEANINGFUL_NODE_TYPES)
    /\ ~HoldsAny(node.type, TRIVIAL_NODE_TYPES)

\* the search target of a node: its first body child, or the node
IsBody(node) == HoldsAny(node.type, BODY_NODE_TYPES)
TargetOf(node) ==
    IF \E i \in DOMAIN node.children : IsBody(node.children[i])
    THEN node.children[CHOOSE i \in DOMAIN node.children :
                           /\ IsBody(node.children[i])
                           /\ \A j \in 1..(i - 1) : ~IsBody(node.children[j])]
    ELSE node

Meaningful(node) == \E i \in DOMAIN TargetOf(node).children : Counts(TargetOf(node).children[i])

\* the four criteria of should_discard, in their order, on the filter's input
Criteria ==
    << IsWhitespaceOnly(run.source),
       Len(run.root.children) = 0,
       \A i \in DOMAIN run.root.children : run.root.children[i].is_error,
       \A i \in DOMAIN run.root.children : ~Meaningful(run.root.children[i]) >>
Reasons == << "empty_source", "no_children", "root_error_only", "no_meaningful_structure" >>

\* C13: should_discard answers the first criterion that matches, in the order
\* empty_source, no_children, root_error_only, no_meaningful_structure, and
\* None only when none matches: a whitespace-only source is empty_source
\* whatever the tree, a root without children under a source that is not blank
\* is no_children and never root_error_only.
C13_ShouldDiscardFirstMatchInOrder ==
    run.pc = "classified" =>
        /\ \A k \in 1..4 :
               (Criteria[k] /\ \A j \in 1..(k - 1) : ~Criteria[j])
                   => run.reason = Some(Reasons[k])
        /\ run.reason = None <=> \A k \in 1..4 : ~Criteria[k]
        /\ IsWhitespaceOnly(run.source) => run.reason = Some("empty_source")
        /\ (~IsWhitespaceOnly(run.source) /\ Len(run.root.children) = 0)
               => run.reason = Some("no_children")

\* C13 witness: a root without children under the source "x": the criterion
\* of the children in error matches it as well, and the answer is no_children.
C13_Witness ==
    /\ run.pc = "classified"
    /\ run.source = << "x" >>
    /\ run.root.children = <<>>
    /\ Criteria[3]
    /\ run.reason = Some("no_children")

----------------------------------------------------------------------------
(* Sample after sample on one SIVerifier: verify, then write_summary, as in  *)
(* verify.main and in the loop of run_pipeline (SpecSummary)                 *)

\* summary_log.csv as earlier runs left it
PriorLogs == { <<>>, << <<"MOCK_ADD_01", "1.0", Text("N/A")>> >> }

InitSummary ==
    /\ InitTrees(ReuseLits)
    /\ \E log \in PriorLogs : fs = [NoFiles EXCEPT !.summary_log = log]
    /\ run = [pc |-> "samples", idx |-> 0]
    /\ verifier = NewSIVerifier
    /\ snippet_manifest = <<>>
    /\ is_valid = FALSE
    /\ applied = 0
    /\ leftover = FALSE
    /\ pc = "ready"

\* verified = verifier.verify(orig_cst, mut_cst, snippet_manifest)
VerifySample ==
    /\ pc \in { "ready", "logged" }
    /\ run.idx < MaxSamples
    /\ \E manifest \in ManifestsOver(ReusePaths),
          orig \in {original_cst, mutated_cst}, mut \in {original_cst, mutated_cst} :
           Verify(orig, mut, manifest)

\* verifier.write_summary(snippet_id, verified)
WriteSummary ==
    /\ pc = "verified"
    /\ fs' = write_summary(fs, verifier, SnippetId(run.idx), is_valid)
    /\ run' = [run EXCEPT !.idx = @ + 1]
    /\ pc' = "logged"
    /\ UNCHANGED <<heap, original_cst, mutated_cst, verifier, snippet_manifest, is_valid,
                   applied, leftover>>

NextSummary == VerifySample \/ WriteSummary

SpecSummary == InitSummary /\ [][NextSummary]_vars

----------------------------------------------------------------------------
(* Claims about the result log *)

\* p comes no later than q when the walk visits the paths: a node before its
\* children, the children left to right
RECURSIVE PreOrderLeq(_, _)
PreOrderLeq(p, q) ==
    IF p = <<>> THEN TRUE
    ELSE IF q = <<>> THEN FALSE
    ELSE IF Head(p) # Head(q) THEN Head(p) < Head(q)
    ELSE PreOrderLeq(Tail(p), Tail(q))

LastRow == fs.summary_log[Len(fs.summary_log)]

\* the errors of the sample verified last, found by a verifier of its own
ErrorsAlone ==
    verify(NewSIVerifier, heap, original_cst, mutated_cst, snippet_manifest).errors

\* C18: the row written right after a sample's verify has score 1.0 and reason
\* "N/A" exactly when the sample has no error; otherwise score 0.0 and the
\* sample's first error in the order of the walk (a path before the paths
\* below and to the right of it, the type or text error of a path before its
\* STRUCTURAL_MISMATCH), never an error of a sample before it.
C18_SummaryRowIsFirstErrorOfSample ==
    pc = "logged" =>
        /\ LastRow[1] = SnippetId(run.idx - 1)
        /\ (LastRow[2] = "1.0" /\ LastRow[3] = Text("N/A")) <=> ErrorsAlone = <<>>
        /\ ErrorsAlone # <<>> =>
               /\ LastRow[2] = "0.0"
               /\ LastRow[3] = ErrorsAlone[1]
               /\ \A i \in DOMAIN ErrorsAlone :
                      /\ PreOrderLeq(LastRow[3].path, ErrorsAlone[i].path)
                      /\ (ErrorsAlone[i].path = LastRow[3].path /\ i > 1)
                             => ErrorsAlone[i].kind = "STRUCTURAL_MISMATCH"

\* C18 witness: the second sample on the verifier has a TYPE_MISMATCH and a
\* STRUCTURAL_MISMATCH at the root; the sample before it was logged with
\* another error; the row holds the TYPE_MISMATCH.
C18_Witness ==
    /\ pc = "logged"
    /\ run.idx = 2
    /\ Len(ErrorsAlone) >= 2
    /\ ErrorsAlone[2].kind = "STRUCTURAL_MISMATCH" /\ ErrorsAlone[2].path = <<0>>
    /\ LastRow[3].kind = "TYPE_MISMATCH"
    /\ fs.summary_log[Len(fs.summary_log) - 1][2] = "0.0"
    /\ fs.summary_log[Len(fs.summary_log) - 1][3] # LastRow[3]

\* C19: the result log is only ever appended to: a step leaves it alone or, as
\* the write_summary of the sample just verified, puts exactly one row at its
\* end, the samples' rows in the order of the samples; no row already there is
\* changed, removed or cut off.
C19_LogIsAppendOnly ==
    [][ \/ fs'.summary_log = fs.summary_log /\ ~(pc = "verified" /\ pc' = "logged")
        \/ /\ pc = "verified" /\ pc' = "logged"
           /\ Len(fs'.summary_log) = Len(fs.summary_log) + 1
           /\ SubSeq(fs'.summary_log, 1, Len(fs.summary_log)) = fs.summary_log
           /\ fs'.summary_log[Len(fs'.summary_log)][1] = SnippetId(run.idx)
           /\ run'.idx = run.idx + 1 ]_vars

\* C19 witness: a row of an earlier run, then the rows of two samples of this
\* run, in order.
C19_Witness ==
    /\ Len(fs.summary_log) = 3
    /\ fs.summary_log[1][1] = "MOCK_ADD_01"
    /\ fs.summary_log[2][1] = SnippetId(0)
    /\ fs.summary_log[3][1] = SnippetId(1)

----------------------------------------------------------------------------
(* Two samples on the SIVerifier run_pipeline creates, their verify and      *)
(* write_summary steps in any order that keeps each sample's own order       *)
(* (SpecInterleaved)                                                         *)

RootManifests == ManifestsOver({ <<0>> })

InitInterleaved ==
    /\ InitTrees(ReuseLits)
    /\ \E m1 \in RootManifests, m2 \in RootManifests, o2 \in {original_cst, mutated_cst} :
           run = [pc |-> "interleaved",
                  st |-> << "new", "new" >>,
                  verdict |-> << FALSE, FALSE >>,
                  args |-> << [orig |-> original_cst, mut |-> mutated_cst, manifest |-> m1],
                              [orig |-> mutated_cst, mut |-> o2, manifest |-> m2] >>]
    /\ fs = NoFiles
    /\ verifier = NewSIVerifier
    /\ snippet_manifest = <<>>
    /\ is_valid = FALSE
    /\ applied = 0
    /\ leftover = FALSE
    /\ pc = "ready"

\* verified = verifier.verify(orig_cst, mut_cst, snippet_manifest), sample i
VerifyOf(i) ==
    /\ run.st[i] = "new"
    /\ LET a == run.args[i]
           v == verify(verifier, heap, a.orig, a.mut, a.manifest)
       IN /\ verifier' = v
          /\ is_valid' = (Len(v.errors) = 0)
          /\ snippet_manifest' = a.manifest
          /\ run' = [run EXCEPT !.st[i] = "verified", !.verdict[i] = (Len(v.errors) = 0)]
    /\ pc' = "verified"
    /\ UNCHANGED <<heap, original_cst, mutated_cst, applied, leftover, fs>>

\* verifier.write_summary(snippet_id, verified), sample i
WriteSummaryOf(i) ==
    /\ run.st[i] = "verified"
    /\ fs' = write_summary(fs, verifier, SnippetId(i - 1), run.verdict[i])
    /\ run' = [run EXCEPT !.st[i] = "logged"]
    /\ pc' = "logged"
    /\ UNCHANGED <<heap, original_cst, mutated_cst, verifier, snippet_manifest, is_valid,
                   applied, leftover>>

NextInterleaved == \E i \in 1..2 : VerifyOf(i) \/ WriteSummaryOf(i)

SpecInterleaved == InitInterleaved /\ [][NextInterleaved]_vars

\* sample i verified alone, on a verifier of its own
AloneVerifier(i) ==
    verify(NewSIVerifier, heap, run.args[i].orig, run.args[i].mut, run.args[i].manifest)
AloneRow(i) ==
    SummaryRow(AloneVerifier(i), SnippetId(i - 1), Len(AloneVerifier(i).errors) = 0)

\* C20: with the verify and write_summary steps of two samples interleaved on
\* one verifier, each sample's verdict and logged row are those of the sample
\* verified alone.
C20_InterleavedSamplesAsAlone ==
    \A i \in 1..2 :
        /\ run.st[i] # "new" => run.verdict[i] = (Len(AloneVerifier(i).errors) = 0)
        /\ run.st[i] = "logged" =>
               \E k \in DOMAIN fs.summary_log : fs.summary_log[k] = AloneRow(i)

----------------------------------------------------------------------------
(* A raw tree through the Adapter, then cloned, then handed to the engine    *)
(* of run_pipeline (SpecAdapter)                                             *)

\* two sources of fourteen bytes for the roots of TsRoots
AdapterSources ==
    { DefF \o << "r", "e", "t", "u", "r", "n", " ", "a" >>,
      << "x", "=", "a", ";", "a", "(", ")", ":", " ", "b", "é", "c", "d" >> }

\* the pairs (raw root, source_bytes) handed to convert_node
AdapterInputs ==
    { [raw |-> c.ts, source_bytes |-> Utf8Encode(c.text)] : c \in TsCodes } \cup
    { [raw |-> root, source_bytes |-> Utf8Encode(source)] :
          root \in TsRoots, source \in AdapterSources }

InitAdapter ==
    /\ \E input \in AdapterInputs :
           run = [pc |-> "raw", raw |-> input.raw, source_bytes |-> input.source_bytes]
    /\ heap = <<>>
    /\ original_cst = NoRef
    /\ mutated_cst = NoRef
    /\ fs = NoFiles
    /\ verifier = NewSIVerifier
    /\ snippet_manifest = <<>>
    /\ is_valid = FALSE
    /\ applied = 0
    /\ leftover = FALSE
    /\ pc = "ready"

\* converted_tree = convert_node(root_node, source_bytes)
ConvertNode ==
    /\ run.pc = "raw"
    /\ LET r == convert_node(heap, run.raw, run.source_bytes)
       IN heap' = r[1] /\ original_cst' = r[2]
    /\ run' = [run EXCEPT !.pc = "converted"]
    /\ UNCHANGED <<mutated_cst, verifier, snippet_manifest, is_valid, applied, leftover,
                   pc, fs>>

\* orig_cst.clone()
CloneConverted ==
    /\ run.pc = "converted"
    /\ mutated_cst = NoRef
    /\ LET r == clone(heap, original_cst)
       IN heap' = r[1] /\ mutated_cst' = r[2]
    /\ UNCHANGED <<original_cst, verifier, snippet_manifest, is_valid, applied, leftover,
                   pc, fs, run>>

\* engine.applyMutations(tree), the engine made of the rules of the registry
ApplyRegistryRules ==
    /\ run.pc = "converted"
    /\ applied < MaxApply
    /\ \E rules \in SeqsUpTo(RULE_REGISTRY, MaxRules) \ { <<>> },
          target \in { original_cst, mutated_cst } \ { NoRef } :
           /\ heap' = applyMutations(heap, rules, target)[1]
           /\ applied' = applied + 1
    /\ UNCHANGED <<original_cst, mutated_cst, verifier, snippet_manifest, is_valid,
                   leftover, pc, fs, run>>

NextAdapter == ConvertNode \/ CloneConverted \/ ApplyRegistryRules

SpecAdapter == InitAdapter /\ [][NextAdapter]_vars

----------------------------------------------------------------------------
(* Claims about the Adapter's trees *)

\* the raw node at a path, and the paths of a raw tree
RECURSIVE RawDescend(_, _), RawPathsFrom(_, _)
RawDescend(node, rest) ==
    IF rest = <<>> THEN node ELSE RawDescend(node.children[Head(rest) + 1], Tail(rest))
RawAt(p) == RawDescend(run.raw, Tail(p))
RawPathsFrom(node, p) ==
    {p} \cup UNION { RawPathsFrom(node.children[i], Append(p, i - 1)) :
                         i \in DOMAIN node.children }
RawPaths == RawPathsFrom(run.raw, <<0>>)

\* C21: in the tree the Adapter made, in its clone, and after any rule
\* applications of the engine on either, a node with children has no text.
C21_NodeWithChildrenHasNoText ==
    \A id \in DOMAIN heap : heap[id].children # <<>> => heap[id].text = None

\* C21 witness: a converted tree with a node with children, cloned, and the
\* rename rule applied: an identifier below that node is renamed.
C21_Witness ==
    /\ run.pc = "converted"
    /\ mutated_cst # NoRef
    /\ applied > 0
    /\ heap[original_cst].children # <<>>
    /\ \E id \in DOMAIN heap : heap[id].text = Some("x_a")

\* C22: convert_node returns a tree of the raw tree's shape: at each path the
\* raw node's type and as many children, in the raw order; the text of a raw
\* node without children is the decoding of source_bytes[start_byte:end_byte],
\* that of a raw node with children is absent.
C22_ConvertNodeKeepsShapeAndLeafText ==
    (run.pc = "converted" /\ applied = 0) =>
        /\ PathsOf(heap, original_cst) = RawPaths
        /\ \A p \in RawPaths :
               LET node == heap[NodeAt(heap, original_cst, p)]
                   raw == RawAt(p)
               IN /\ node.type = TypeName(raw.type)
                  /\ Len(node.children) = Len(raw.children)
                  /\ node.text =
                         IF raw.children = <<>>
                         THEN Some(Utf8Decode(SubSeq(run.source_bytes, raw.start_byte + 1,
                                                     raw.end_byte)))
                         ELSE None

\* C22 witness: the source é=a: the first identifier spans two bytes and its
\* text is the one character; the "=" behind it starts at byte 2.
C22_Witness ==
    /\ run.pc = "converted"
    /\ run.source_bytes = << 195, 169, 61, 97 >>
    /\ heap[NodeAt(heap, original_cst, <<0, 0, 0, 0>>)].text = Some("é")
    /\ heap[NodeAt(heap, original_cst, <<0, 0, 0, 1>>)].text = Some("=")
    /\ heap[NodeAt(heap, original_cst, <<0, 0, 0>>)].text = None

----------------------------------------------------------------------------
(* Node on its own: trees grown by add_child, traversed, cloned, and edited  *)
(* after the clone (SpecNode)                                                *)

\* the most nodes of the tree before it is cloned
MaxNodes == 4
\* the most edits after the clone is taken
MaxEdits == 2

\* the arguments of the Node(...) calls: type, text, is_named
NodeArgs == { <<"A", None, FALSE>>, <<"identifier", Some("original"), TRUE>> }
\* the texts assigned to node.text
EditTexts == { Some("modified") }

\* Node.traverse in post-order (a mutant)
RECURSIVE TraversePostOrder(_, _), TraversePostOrderAll(_, _)
TraversePostOrder(h, id) == Append(TraversePostOrderAll(h, h[id].children), id)
TraversePostOrderAll(h, ids) ==
    IF ids = <<>> THEN <<>>
    ELSE TraversePostOrder(h, Head(ids)) \o TraversePostOrderAll(h, Tail(ids))

\* Node.traverse: yield self, then yield from each child's traverse, in order
RECURSIVE traverse(_, _), TraverseAll(_, _)
traverse(h, id) == <<id>> \o TraverseAll(h, h[id].children)
TraverseAll(h, ids) ==
    IF ids = <<>> THEN <<>>
    ELSE traverse(h, Head(ids)) \o TraverseAll(h, Tail(ids))

\* the node objects of the tree rooted at root
TreeNodes(h, root) == { NodeAt(h, root, p) : p \in PathsOf(h, root) }

\* root = Node(type, text=..., is_named=...)
InitNode ==
    /\ \E a \in NodeArgs : heap = << NewNode(a[1], <<>>, a[2], a[3]) >>
    /\ original_cst = 1
    /\ mutated_cst = NoRef
    /\ run = [op |-> "new", target |-> 1, root |-> 1, order |-> <<>>, edits |-> 0]
    /\ fs = NoFiles
    /\ verifier = NewSIVerifier
    /\ snippet_manifest = <<>>
    /\ is_valid = FALSE
    /\ applied = 0
    /\ leftover = FALSE
    /\ pc = "ready"

\* the nodes an edit may address: those of the original, and of the clone
\* once it is taken
Editable ==
    TreeNodes(heap, original_cst) \cup
    (IF mutated_cst = NoRef THEN {} ELSE TreeNodes(heap, mutated_cst))

\* an edit is one more node before the clone and one more edit after it
MayEdit ==
    IF mutated_cst = NoRef THEN Len(heap) < MaxNodes ELSE run.edits < MaxEdits

Edited == IF mutated_cst = NoRef THEN run.edits ELSE run.edits + 1

\* parent.add_child(Node(type, text=..., is_named=...))
AddChild ==
    /\ MayEdit
    /\ \E parent \in Editable, a \in NodeArgs :
           LET h1 == Append(heap, NewNode(a[1], <<>>, a[2], a[3]))
           IN /\ heap' = add_child(h1, parent, Len(h1))
              /\ run' = [op |-> "add_child", target |-> parent, root |-> run.root,
                         order |-> <<>>, edits |-> Edited]
    /\ UNCHANGED <<original_cst, mutated_cst, verifier, snippet_manifest, is_valid,
                   applied, leftover, pc, fs>>

\* node.text = "modified", after the clone
SetText ==
    /\ mutated_cst # NoRef
    /\ MayEdit
    /\ \E node \in Editable, t \in EditTexts :
           /\ heap' = [heap EXCEPT ![node].text = t]
           /\ run' = [op |-> "set_text", target |-> node, root |-> run.root,
                      order |-> <<>>, edits |-> Edited]
    /\ UNCHANGED <<original_cst, mutated_cst, verifier, snippet_manifest, is_valid,
                   applied, leftover, pc, fs>>

\* cloned_root = root.clone()
CloneRoot ==
    /\ mutated_cst = NoRef
    /\ LET r == clone(heap, original_cst)
       IN heap' = r[1] /\ mutated_cst' = r[2]
    /\ run' = [op |-> "clone", target |-> original_cst, root |-> run.root,
               order |-> <<>>, edits |-> 0]
    /\ UNCHANGED <<original_cst, verifier, snippet_manifest, is_valid, applied, leftover,
                   pc, fs>>

\* list(root.traverse()), of the original or of the clone
Traverse ==
    /\ \E root \in { original_cst, mutated_cst } \ { NoRef } :
           run' = [op |-> "traverse", target |-> root, root |-> root,
                   order |-> traverse(heap, root), edits |-> run.edits]
    /\ UNCHANGED <<heap, original_cst, mutated_cst, verifier, snippet_manifest, is_valid,
                   applied, leftover, pc, fs>>

NextNode == AddChild \/ SetText \/ CloneRoot \/ Traverse

SpecNode == InitNode /\ [][NextNode]_vars

----------------------------------------------------------------------------
(* Claims about Node *)

\* the trees at two roots have the same paths and, at each path, the same type
\* and the same text
SameTypesTextsOrder(h, a, b) ==
    /\ PathsOf(h, a) = PathsOf(h, b)
    /\ \A p \in PathsOf(h, a) :
           /\ h[NodeAt(h, a, p)].type = h[NodeAt(h, b, p)].type
           /\ h[NodeAt(h, a, p)].text = h[NodeAt(h, b, p)].text

\* C23: the clone has the types, texts and child order of the original and
\* shares no node object with it; after the clone is taken a text edit or an
\* add_child on a node of the clone leaves every node of the original as it
\* was, and one on a node of the original leaves every node of the clone.
C23_CloneSharesNothing ==
    [][ /\ (run'.op = "clone") =>
              /\ SameTypesTextsOrder(heap', original_cst', mutated_cst')
              /\ TreeNodes(heap', original_cst') \cap TreeNodes(heap', mutated_cst') = {}
              /\ \A id \in DOMAIN heap : heap'[id] = heap[id]
        /\ (mutated_cst # NoRef /\ run'.op \in { "set_text", "add_child" }) =>
              /\ run'.target \in TreeNodes(heap, mutated_cst) =>
                     /\ \A id \in TreeNodes(heap, original_cst) : heap'[id] = heap[id]
                     /\ TreeNodes(heap', original_cst) = TreeNodes(heap, original_cst)
              /\ run'.target \in TreeNodes(heap, original_cst) =>
                     /\ \A id \in TreeNodes(heap, mutated_cst) : heap'[id] = heap[id]
                     /\ TreeNodes(heap', mutated_cst) = TreeNodes(heap, mutated_cst)
      ]_vars

\* C23 witness: a child of the clone was given another text and the child at
\* that path of the original still has its own; the original then got a child
\* the clone does not have.
C23_Witness ==
    /\ mutated_cst # NoRef
    /\ run.edits = 2
    /\ Len(heap[original_cst].children) = 2
    /\ Len(heap[mutated_cst].children) = 1
    /\ heap[heap[mutated_cst].children[1]].text = Some("modified")
    /\ heap[heap[original_cst].children[1]].text = Some("original")

PreOrderBefore(p, q) == p # q /\ PreOrderLeq(p, q)

\* C24: traverse yields as many nodes as the tree has paths, and the i-th
\* node yielded is the node at the one path that has i - 1 paths before it in
\* pre-order (a node before its descendants, the children's subtrees left to
\* right); on a node without children it yields that node only.
C24_TraverseIsPreOrder ==
    (run.op = "traverse") =>
        LET P == PathsOf(heap, run.root)
        IN /\ Len(run.order) = Cardinality(P)
           /\ \A p \in P :
                  run.order[Cardinality({ q \in P : PreOrderBefore(q, p) }) + 1]
                      = NodeAt(heap, run.root, p)
           /\ \A i, j \in DOMAIN run.order : i # j => run.order[i] # run.order[j]
           /\ heap[run.root].children = <<>> => run.order = << run.root >>

\* C24 witness: the tree of the test: a root with two children, the second
\* with a child of its own; four nodes are yielded, the grandchild last.
C24_Witness ==
    /\ run.op = "traverse"
    /\ Len(run.order) = 4
    /\ Len(heap[run.root].children) = 2
    /\ heap[heap[run.root].children[1]].children = <<>>
    /\ Len(heap[heap[run.root].children[2]].children) = 1
    /\ run.order[4] = heap[heap[run.root].children[2]].children[1]

\* C27: at each path of the clone just taken the node has the type, the text
\* and the is_named flag of the node at that path of the original.
C27_ClonePreservesIsNamed ==
    (run.op = "clone") =>
        /\ PathsOf(heap, mutated_cst) = PathsOf(heap, original_cst)
        /\ \A p \in PathsOf(heap, original_cst) :
               LET o == heap[NodeAt(heap, original_cst, p)]
                   c == heap[NodeAt(heap, mutated_cst, p)]
               IN c.type = o.type /\ c.text = o.text /\ c.is_named = o.is_named

----------------------------------------------------------------------------
(* data_loading.DataLoader: one loader, the file at its path written and     *)
(* removed around its calls (SpecLoader)                                     *)

\* the most rows of a Parquet file
MaxFrameRows == 2

FrameRows == { [index |-> 0, code |-> "x = 1 + 1", language |-> "python"],
               [index |-> 1, code |-> "pass", language |-> "python"] }
Frames == SeqsUpTo(FrameRows, MaxFrameRows)

\* what the file at file_path holds: a Parquet table, or other bytes
ParquetFile(rows) == [parquet |-> TRUE, rows |-> rows]
NotParquet == [parquet |-> FALSE, rows |-> <<>>]
FileContents == { ParquetFile(rows) : rows \in Frames } \cup { NotParquet }

\* DataLoader.__init__
NewDataLoader(file_path) == [file_path |-> file_path, df |-> None]

\* the outcome of a call: the object after it, the exception raised or None,
\* the value returned or None
Outcome(self, exc, value) == [self |-> self, exc |-> exc, value |-> value]

\* DataLoader.load dropping the frame it holds when the read fails (a mutant)
LoadForgetting(self, file) ==
    IF file = None
    THEN Outcome([self EXCEPT !.df = None], Some("FileNotFoundError"), None)
    ELSE IF ~file[1].parquet
    THEN Outcome([self EXCEPT !.df = None], Some("ValueError"), None)
    ELSE Outcome([self EXCEPT !.df = Some(file[1].rows)], None, Some(file[1].rows))

\* DataLoader.load: pd.read_parquet raises before self.df is assigned
DataLoader_load(self, file) ==
    IF file = None
    THEN Outcome(self, Some("FileNotFoundError"), None)
    ELSE IF ~file[1].parquet
    THEN Outcome(self, Some("ValueError"), None)
    ELSE Outcome([self EXCEPT !.df = Some(file[1].rows)], None, Some(file[1].rows))

\* DataLoader.print_entries
DataLoader_print_entries(self) ==
    IF self.df = None
    THEN Outcome(self, Some("ValueError"), None)
    ELSE Outcome(self, None, None)

InitLoader ==
    /\ fs = NoFiles
    /\ run = [loader |-> NewDataLoader("test.parquet"), op |-> "new", exc |-> None,
              file |-> None, before |-> None, loaded |-> FALSE]
    /\ heap = <<>>
    /\ original_cst = NoRef
    /\ mutated_cst = NoRef
    /\ verifier = NewSIVerifier
    /\ snippet_manifest = <<>>
    /\ is_valid = FALSE
    /\ applied = 0
    /\ leftover = FALSE
    /\ pc = "ready"

\* the file at file_path is written: df.to_parquet(...) or open(..., "w")
WriteFile ==
    /\ \E content \in FileContents : fs' = [fs EXCEPT !.dataset = Some(content)]
    /\ UNCHANGED <<heap, original_cst, mutated_cst, verifier, snippet_manifest, is_valid,
                   applied, leftover, pc, run>>

\* the file at file_path is removed
RemoveFile ==
    /\ fs.dataset # None
    /\ fs' = [fs EXCEPT !.dataset = None]
    /\ UNCHANGED <<heap, original_cst, mutated_cst, verifier, snippet_manifest, is_valid,
                   applied, leftover, pc, run>>

\* loader.load()
Load ==
    /\ LET r == DataLoader_load(run.loader, fs.dataset)
       IN run' = [loader |-> r.self, op |-> "load", exc |-> r.exc, file |-> fs.dataset,
                  before |-> run.loader.df, loaded |-> run.loaded \/ r.exc = None]
    /\ UNCHANGED <<heap, original_cst, mutated_cst, verifier, snippet_manifest, is_valid,
                   applied, leftover, pc, fs>>

\* loader.print_entries()
PrintEntries ==
    /\ LET r == DataLoader_print_entries(run.loader)
       IN run' = [loader |-> r.self, op |-> "print_entries", exc |-> r.exc,
                  file |-> fs.dataset, before |-> run.loader.df, loaded |-> run.loaded]
    /\ UNCHANGED <<heap, original_cst, mutated_cst, verifier, snippet_manifest, is_valid,
                   applied, leftover, pc, fs>>

NextLoader == WriteFile \/ RemoveFile \/ Load \/ PrintEntries

SpecLoader == InitLoader /\ [][NextLoader]_vars

\* C25: load on a missing file raises FileNotFoundError and on a file that is
\* not Parquet ValueError, and df is then what it was before the call; df is
\* None as long as no load has succeeded; print_entries raises ValueError
\* exactly when no load has succeeded.
C25_FailedLoadKeepsFrame ==
    /\ (run.op = "load" /\ run.file = None) =>
           run.exc = Some("FileNotFoundError") /\ run.loader.df = run.before
    /\ (run.op = "load" /\ run.file # None /\ ~run.file[1].parquet) =>
           run.exc = Some("ValueError") /\ run.loader.df = run.before
    /\ ~run.loaded => run.loader.df = None
    /\ (run.op = "print_entries") =>
           /\ run.exc \in { None, Some("ValueError") }
           /\ (run.exc = Some("ValueError")) <=> ~run.loaded

\* C25 witness: a load of a file that is not Parquet after a load that
\* succeeded with one row: ValueError, and the row is still held.
C25_Witness ==
    /\ run.op = "load"
    /\ run.exc = Some("ValueError")
    /\ run.loaded
    /\ run.loader.df # None
    /\ Len(run.loader.df[1]) = 1

----------------------------------------------------------------------------
(* The text check beside the type check *)

\* C26: at every path the walk visits where the paired nodes differ in type
\* and in text, the error list holds a TYPE_MISMATCH and also the text error:
\* a MUTATION_FAIL when the path is a key of renamed_paths and the mutated
\* text is not the expected one, an UNEXPECTED_CHANGE when it is not a key.
C26_TextCheckBesideTypeCheck ==
    Verified =>
        \A p \in ReachedPaths :
            (~SameType(p) /\ ~SameText(p)) =>
                /\ ErrorCount("TYPE_MISMATCH", p) = 1
                /\ (p \in DOMAIN ManifestRenamed /\ MutAt(p).text # ManifestRenamed[p])
                       => ErrorCount("MUTATION_FAIL", p) = 1
                /\ (p \notin DOMAIN ManifestRenamed)
                       => ErrorCount("UNEXPECTED_CHANGE", p) = 1

====
